---------------------------- MODULE Spec2Model ----------------------------
(***************************************************************************)
(* Model of all-sets-plays.go: the play-count aggregator of all-sets.md.   *)
(*                                                                         *)
(* Text is modelled as sequences of one-character strings, so that the     *)
(* regular expressions, the trimming and the number formatting of the      *)
(* program are computed character by character.  The two emoji of the      *)
(* output are one token each (Headphones, Notes).                          *)
(***************************************************************************)
EXTENDS Integers, Sequences, FiniteSets, TLC

VARIABLES
    args,        \* os.Args[1]: "none" or "sort"
    file,        \* ../all-sets.md: [readable, lines]
    cfg,         \* the environment: which credentials are set
    pc,          \* position of main: "start", "loop", "done"
    setNames,    \* extractSetLinks' three result slices
    setLinks,
    rawLines,
    idx,         \* the index of main's range loop (1-based)
    processed,   \* main's processed map, as the set of its keys
    totalPlays,
    totalSets,
    out,         \* stdout, a sequence of lines
    exitCode,    \* -1 while the process runs
    lastEntry,   \* what the last loop iteration did on the network
    scIn,        \* resolver harness: the input the resolver was given
    scOut,       \* resolver harness: what getSoundcloudPlays did
    fmtIn,       \* formatter harness: n
    fmtOut,      \* formatter harness: formatPlays(n)
    fetches,     \* the links main has called fetchURL on, in order
    ytIn,        \* resolver harness: the input getYouTubePlays was given
    ytOut        \* resolver harness: what getYouTubePlays did

vars == <<args, file, cfg, pc, setNames, setLinks, rawLines, idx, processed,
          totalPlays, totalSets, out, exitCode, lastEntry, scIn, scOut,
          fmtIn, fmtOut, fetches, ytIn, ytOut>>

-----------------------------------------------------------------------------
(* Characters and strings *)

\* the two markers as the program's literals spell them: four characters of
\* two bytes each
Headphones == "<headphones>"
Notes == "<notes>"

\* the white space of package unicode (IsSpace), which strings.TrimSpace cuts:
\* tab, line feed, vertical tab, form feed, carriage return, space, U+0085,
\* U+00A0 and the space separators of category Z
VerticalTab == "<U+000B>"
NextLine == "<U+0085>"
NoBreakSpace == "<U+00A0>"
SpaceSeparators ==
    {"<U+1680>", "<U+2000>", "<U+2001>", "<U+2002>", "<U+2003>", "<U+2004>",
     "<U+2005>", "<U+2006>", "<U+2007>", "<U+2008>", "<U+2009>", "<U+200A>",
     "<U+2028>", "<U+2029>", "<U+202F>", "<U+205F>", "<U+3000>"}
Whitespace ==
    {"\t", "\n", VerticalTab, "\f", "\r", " ", NextLine, NoBreakSpace}
        \cup SpaceSeparators
\* the class \s of package regexp
RegexSpace == {"\t", "\n", "\f", "\r", " "}
Digits == <<"0", "1", "2", "3", "4", "5", "6", "7", "8", "9">>
DigitSet == {Digits[i] : i \in 1..10}

DigitValue(c) == (CHOOSE i \in 1..10 : Digits[i] = c) - 1

\* p occurs in s at position i
HasPrefixAt(s, p, i) ==
    /\ i >= 1
    /\ i + Len(p) - 1 <= Len(s)
    /\ \A k \in 1..Len(p) : s[i + k - 1] = p[k]

\* least position >= i at which p occurs in s, 0 when there is none
IndexFrom(s, p, i) ==
    LET hits == {j \in i..Len(s) : HasPrefixAt(s, p, j)}
    IN IF hits = {} THEN 0 ELSE CHOOSE j \in hits : \A k \in hits : j <= k

\* strings.HasPrefix
HasPrefix(s, p) == HasPrefixAt(s, p, 1)

\* strings.TrimSpace: the string from its first to its last character that
\* is not white space
RECURSIVE FirstNonSpace(_, _)
FirstNonSpace(s, i) ==
    IF i <= Len(s) /\ s[i] \in Whitespace THEN FirstNonSpace(s, i + 1) ELSE i

RECURSIVE LastNonSpace(_, _)
LastNonSpace(s, i) ==
    IF i >= 1 /\ s[i] \in Whitespace THEN LastNonSpace(s, i - 1) ELSE i

TrimSpace(s) ==
    LET lo == FirstNonSpace(s, 1)
    IN IF lo > Len(s) THEN <<>> ELSE SubSeq(s, lo, LastNonSpace(s, Len(s)))

\* the decimal digits of a natural number
RECURSIVE NatDigits(_)
NatDigits(n) ==
    IF n < 10 THEN <<Digits[n + 1]>>
    ELSE NatDigits(n \div 10) \o <<Digits[(n % 10) + 1]>>

\* fmt's %d
Itoa(n) == IF n < 0 THEN <<"-">> \o NatDigits(0 - n) ELSE NatDigits(n)

\* the value strconv.Atoi gives for a run of digits
RECURSIVE Atoi(_)
Atoi(ds) ==
    IF Len(ds) = 0 THEN 0
    ELSE 10 * Atoi(SubSeq(ds, 1, Len(ds) - 1)) + DigitValue(ds[Len(ds)])

\* the digits of the greatest int, 1<<63 - 1
MaxIntDigits ==
    <<"9", "2", "2", "3", "3", "7", "2", "0", "3", "6", "8", "5", "4", "7", "7",
      "5", "8", "0", "7">>

\* a run of digits without its leading zeros
RECURSIVE StripZeros(_)
StripZeros(ds) ==
    IF Len(ds) > 0 /\ ds[1] = "0" THEN StripZeros(Tail(ds)) ELSE ds

\* a above b, for two runs of digits of one length
RECURSIVE DigitsAbove(_, _)
DigitsAbove(a, b) ==
    IF Len(a) = 0 THEN FALSE
    ELSE IF a[1] # b[1] THEN DigitValue(a[1]) > DigitValue(b[1])
    ELSE DigitsAbove(Tail(a), Tail(b))

\* the error of strconv.Atoi on a non-empty run of digits: the value is out
\* of the range of int
AtoiErr(ds) ==
    LET d == StripZeros(ds)
    IN \/ Len(d) > Len(MaxIntDigits)
       \/ Len(d) = Len(MaxIntDigits) /\ DigitsAbove(d, MaxIntDigits)

-----------------------------------------------------------------------------
(* formatPlays *)

Thousand == 1000
Million == 1000000

RECURSIVE Log2(_)
Log2(k) == IF k < 2 THEN 0 ELSE 1 + Log2(k \div 2)

RECURSIVE OddPart(_)
OddPart(d) == IF d % 2 = 0 THEN OddPart(d \div 2) ELSE d

RECURSIVE TwoExp(_)
TwoExp(d) == IF d % 2 = 0 THEN 1 + TwoExp(d \div 2) ELSE 0

RECURSIVE Pow2Mod(_, _)
Pow2Mod(e, m) == IF e = 0 THEN 1 % m ELSE (2 * Pow2Mod(e - 1, m)) % m

\* Sign of float64(n)/d - n/d, for n >= d: the quotient is rounded to a 53 bit
\* mantissa, to nearest; with d = 2^a * m, m odd, the discarded part is
\* (n * 2^(52-b-a)) mod m over m, where 2^b <= n/d < 2^(b+1).
FloatDivError(n, d) ==
    LET m == OddPart(d)
        a == TwoExp(d)
        b == Log2(n \div d)
        r == ((n % m) * Pow2Mod(52 - b - a, m)) % m
    IN IF r = 0 THEN 0 ELSE IF 2 * r < m THEN -1 ELSE 1

\* The tenths printed by %.1f for float64(n)/d (d a multiple of 10, n >= d):
\* the decimal expansion of the float is rounded to one decimal, an exact
\* half to even.
RoundedTenths(n, d) ==
    LET unit == d \div 10
        q == n \div unit
        rem == n % unit
    IN IF 2 * rem < unit THEN q
       ELSE IF 2 * rem > unit THEN q + 1
       ELSE LET e == FloatDivError(n, d)
            IN IF e < 0 THEN q
               ELSE IF e > 0 THEN q + 1
               ELSE IF q % 2 = 0 THEN q ELSE q + 1

\* fmt.Sprintf("%.1f", float64(n)/d)
SprintfFixed1Mutant(n, d) ==
    LET t == n \div (d \div 10)
    IN NatDigits(t \div 10) \o <<".">> \o NatDigits(t % 10)

SprintfFixed1(n, d) ==
    LET t == RoundedTenths(n, d)
    IN NatDigits(t \div 10) \o <<".">> \o NatDigits(t % 10)

formatPlays(n) ==
    IF n >= Million THEN SprintfFixed1(n, Million) \o <<"M">>
    ELSE IF n >= Thousand THEN SprintfFixed1(n, Thousand) \o <<"k">>
    ELSE Itoa(n)

-----------------------------------------------------------------------------
(* The list parser: extractSetLinks *)

ListMarker == <<"*", " ">>

\* re = \* \[(.*?)\]\((.*?)\) on one line: the leftmost "* [", the shortest
\* name up to the next "](", the shortest link up to the next ")".
\* FindStringSubmatch gives three strings on a match and nil otherwise.
MarkdownLink(trim) ==
    LET i == IndexFrom(trim, <<"*", " ", "[">>, 1)
        j == IF i = 0 THEN 0 ELSE IndexFrom(trim, <<"]", "(">>, i + 3)
        k == IF j = 0 THEN 0 ELSE IndexFrom(trim, <<")">>, j + 2)
    IN IF k = 0 THEN [ok |-> FALSE, name |-> <<>>, link |-> <<>>]
       ELSE [ok |-> TRUE,
             name |-> SubSeq(trim, i + 3, j - 1),
             link |-> SubSeq(trim, j + 2, k - 1)]

\* the dedup key of a list-item line: the link, or the trimmed line when the
\* line has no markdown link or an empty one
EntryKey(trim) ==
    LET m == MarkdownLink(trim)
    IN IF m.ok /\ m.link # <<>> THEN m.link ELSE trim

\* what extractSetLinks appends for a list-item line
RawLineOfMutant(line, trim) == line

RawLineOf(line, trim) == trim

EntryOf(line, trim) ==
    LET m == MarkdownLink(trim)
    IN IF m.ok
       THEN [name |-> m.name, link |-> m.link, raw |-> RawLineOf(line, trim)]
       ELSE [name |-> trim, link |-> <<>>, raw |-> RawLineOf(line, trim)]

\* the buffer of a bufio.Scanner, in bytes
MaxScanTokenSize == 65536

\* the bytes of a line in UTF-8: one for a character, one or two more for
\* the white space beyond ASCII, and eight in all for a marker
TwoByteChars == {NextLine, NoBreakSpace}
ThreeByteChars == SpaceSeparators
MarkerChars == {Headphones, Notes}
MarkerBytes == 8

ByteLen(line) ==
    Len(line)
    + Cardinality({i \in 1..Len(line) : line[i] \in TwoByteChars})
    + 2 * Cardinality({i \in 1..Len(line) : line[i] \in ThreeByteChars})
    + (MarkerBytes - 1)
          * Cardinality({i \in 1..Len(line) : line[i] \in MarkerChars})

\* scanner.Scan() gives up (bufio.ErrTooLong) on a line that fills the buffer
\* before its line feed
ErrTooLong(line) == ByteLen(line) >= MaxScanTokenSize

\* the scanner loop of extractSetLinks from line k on; acc holds names, links,
\* rawLines and the seen map (as the set of its keys). The loop ends when
\* Scan returns false: at the end of what the file gave, or at a line the
\* buffer cannot hold; scanner.Err() is never asked
RECURSIVE ScanLines(_, _, _)
ScanLines(lines, k, acc) ==
    IF k > Len(lines) THEN acc
    ELSE IF ErrTooLong(lines[k]) THEN acc
    ELSE LET trim == TrimSpace(lines[k])
         IN IF ~HasPrefix(trim, ListMarker) THEN ScanLines(lines, k + 1, acc)
            ELSE IF EntryKey(trim) \in acc.seen THEN ScanLines(lines, k + 1, acc)
            ELSE LET e == EntryOf(lines[k], trim)
                 IN ScanLines(lines, k + 1,
                        [names |-> Append(acc.names, e.name),
                         links |-> Append(acc.links, e.link),
                         rawLines |-> Append(acc.rawLines, e.raw),
                         seen |-> acc.seen \cup {EntryKey(trim)}])

extractSetLinks(lines) ==
    ScanLines(lines, 1, [names |-> <<>>, links |-> <<>>, rawLines |-> <<>>,
                         seen |-> {}])

-----------------------------------------------------------------------------
(* Sort mode: printSortedSets *)

\* the maximal run of characters of s from position p on that satisfy In
RECURSIVE RunEnd(_, _, _)
RunEnd(s, p, allowed) ==
    IF p <= Len(s) /\ s[p] \in allowed THEN RunEnd(s, p + 1, allowed) ELSE p

CharsOf(s) == {s[i] : i \in 1..Len(s)}

\* reLink = \((https?://[^\s)]+)\) : the link of the leftmost match, <<>>
\* when there is none
SchemeLenAt(s, p) ==
    IF HasPrefixAt(s, <<"h", "t", "t", "p", ":", "/", "/">>, p) THEN 7
    ELSE IF HasPrefixAt(s, <<"h", "t", "t", "p", "s", ":", "/", "/">>, p) THEN 8
    ELSE 0

LinkMatchAt(s, p) ==
    LET n == SchemeLenAt(s, p + 1)
        e == RunEnd(s, p + 1 + n, CharsOf(s) \ (RegexSpace \cup {")"}))
    IN /\ p <= Len(s)
       /\ s[p] = "("
       /\ n > 0
       /\ e > p + 1 + n
       /\ e <= Len(s)
       /\ s[e] = ")"

ExtractLink(s) ==
    LET hits == {p \in 1..Len(s) : LinkMatchAt(s, p)}
    IN IF hits = {} THEN <<>>
       ELSE LET p == CHOOSE q \in hits : \A r \in hits : q <= r
                n == SchemeLenAt(s, p + 1)
                e == RunEnd(s, p + 1 + n,
                            CharsOf(s) \ (RegexSpace \cup {")"}))
            IN SubSeq(s, p + 1, e - 1)

\* rePlays = ([0-9]+)<headphones> : the leftmost match starts at the first
\* digit of the first run of digits that ends at a headphones marker; no
\* match, or a run strconv.Atoi rejects, leaves plays 0
ExtractPlays(s) ==
    LET hits == {p \in 1..Len(s) :
                    /\ s[p] \in DigitSet
                    /\ RunEnd(s, p, DigitSet) <= Len(s)
                    /\ s[RunEnd(s, p, DigitSet)] = Headphones}
    IN IF hits = {} THEN 0
       ELSE LET p == CHOOSE q \in hits : \A r \in hits : q <= r
                m == SubSeq(s, p, RunEnd(s, p, DigitSet) - 1)
            IN IF AtoiErr(m) THEN 0 ELSE Atoi(m)

\* the duplicate test of printSortedSets: the line's link was seen before
IsDuplicate(link, seenLinks) == link # <<>> /\ link \in seenLinks

\* the loop of printSortedSets from line k on: entries kept so far and the
\* seenLinks map
RECURSIVE CollectEntries(_, _, _, _)
CollectEntries(lines, k, entries, seenLinks) ==
    IF k > Len(lines) THEN entries
    ELSE LET trim == TrimSpace(lines[k])
             link == ExtractLink(trim)
         IN IF ~HasPrefix(trim, ListMarker)
            THEN CollectEntries(lines, k + 1, entries, seenLinks)
            ELSE IF IsDuplicate(link, seenLinks)
            THEN CollectEntries(lines, k + 1, entries, seenLinks)
            ELSE CollectEntries(lines, k + 1,
                    Append(entries, [line |-> trim,
                                     plays |-> ExtractPlays(trim),
                                     link |-> link]),
                    IF link # <<>> THEN seenLinks \cup {link} ELSE seenLinks)

SortEntries(lines) == CollectEntries(lines, 1, <<>>, {})

\* the less function handed to sort.Slice
LessMutant(a, b) == a.plays < b.plays

Less(a, b) == a.plays > b.plays

\* insertionSort of package sort: element i moves left while it is less than
\* its left neighbour
RECURSIVE InsertLeft(_, _)
InsertLeft(s, j) ==
    IF j > 1 /\ Less(s[j], s[j - 1])
    THEN InsertLeft([s EXCEPT ![j] = s[j - 1], ![j - 1] = s[j]], j - 1)
    ELSE s

RECURSIVE InsertionSortFrom(_, _)
InsertionSortFrom(s, i) ==
    IF i > Len(s) THEN s ELSE InsertionSortFrom(InsertLeft(s, i), i + 1)

InsertionSort(s) == InsertionSortFrom(s, 2)

\* the ShellSort pass with gap 6 that quickSort (Go up to 1.18) runs before
\* the insertion sort on a slice of at most 12 elements
RECURSIVE ShellPassFrom(_, _)
ShellPassFrom(s, i) ==
    IF i > Len(s) THEN s
    ELSE IF Less(s[i], s[i - 6])
    THEN ShellPassFrom([s EXCEPT ![i] = s[i - 6], ![i - 6] = s[i]], i + 1)
    ELSE ShellPassFrom(s, i + 1)

ShellPass(s) == ShellPassFrom(s, 7)

\* sort.Slice promises no stable order.  On slices of at most 12 elements the
\* Go toolchains produce one of two results: pdqsort (Go 1.19 and later) runs
\* the insertion sort alone, quickSort (Go 1.18 and earlier) runs the gap-6
\* pass first.
SortSlice(s) == {InsertionSort(s), InsertionSort(ShellPass(s))}

-----------------------------------------------------------------------------
(* The provider resolvers.  A server's answer to one request is a record     *)
(* [err, status, decodes, count]: the transport error, the status code,      *)
(* whether the body decodes as JSON, and the count field it then holds.      *)

StatusOK == 200
StatusFound == 302
StatusUnauthorized == 401

NoHop == [err |-> TRUE, status |-> 0, decodes |-> FALSE, count |-> 0]

Req(endpoint, auth) == [endpoint |-> endpoint, auth |-> auth]

\* getMixcloudPlays: url is "ok" when the URL holds a user and a slug
getMixcloudPlays(url, r) ==
    IF url # "ok" THEN [plays |-> 0, reqs |-> <<>>]
    ELSE LET reqs == <<Req("mixcloud_api", "none")>>
         IN IF r.err THEN [plays |-> 0, reqs |-> reqs]
            ELSE IF r.status # StatusOK THEN [plays |-> 0, reqs |-> reqs]
            ELSE IF ~r.decodes THEN [plays |-> 0, reqs |-> reqs]
            ELSE [plays |-> r.count, reqs |-> reqs]

\* resolveSoundCloudWithToken: t.first answers the resolve request, t.second
\* the request to the Location of a 302
resolveSoundCloudWithToken(t, auth) ==
    LET r1 == <<Req("resolve", auth)>>
        r2 == r1 \o <<Req("redirect", auth)>>
    IN IF t.first.err THEN [plays |-> 0, ok |-> FALSE, reqs |-> r1]
       ELSE IF t.first.status = StatusOK
       THEN IF t.first.decodes
            THEN [plays |-> t.first.count, ok |-> TRUE, reqs |-> r1]
            ELSE [plays |-> 0, ok |-> FALSE, reqs |-> r1]
       ELSE IF t.first.status = StatusFound
       THEN IF t.second.err THEN [plays |-> 0, ok |-> FALSE, reqs |-> r2]
            ELSE IF t.second.status = StatusOK /\ t.second.decodes
            THEN [plays |-> t.second.count, ok |-> TRUE, reqs |-> r2]
            ELSE [plays |-> 0, ok |-> FALSE, reqs |-> r2]
       ELSE [plays |-> 0, ok |-> FALSE, reqs |-> r1]

NotTried == [done |-> FALSE, plays |-> 0, reqs |-> <<>>]

\* step 1 of getSoundcloudPlays: SOUNDCLOUD_OAUTH_TOKEN
TokenStepMutant(c, env) ==
    IF c.oauthToken
    THEN LET r == resolveSoundCloudWithToken(env.tokenResolve, "env_token")
         IN [done |-> FALSE, plays |-> r.plays, reqs |-> r.reqs]
    ELSE NotTried

TokenStep(c, env) ==
    IF c.oauthToken
    THEN LET r == resolveSoundCloudWithToken(env.tokenResolve, "env_token")
         IN [done |-> r.ok, plays |-> r.plays, reqs |-> r.reqs]
    ELSE NotTried

\* step 2: the client-credentials exchange, then the resolve with the token
\* obtained; x.resolve answers that resolve
ExchangeStepMutant(c, env) ==
    LET x == env.exchange
        post == <<Req("oauth2_token", "client_credentials")>>
    IN IF c.clientID /\ c.clientSecret
       THEN IF x.err THEN [done |-> FALSE, plays |-> 0, reqs |-> post]
            ELSE IF x.status = StatusOK /\ x.decodes /\ x.token
            THEN LET r == resolveSoundCloudWithToken(x.resolve, "exchanged_token")
                 IN [done |-> FALSE, plays |-> r.plays, reqs |-> post \o r.reqs]
            ELSE [done |-> FALSE, plays |-> 0, reqs |-> post]
       ELSE NotTried

\* the exchange attempted with one of the two client credentials
ExchangeStepLooseMutant(c, env) ==
    LET x == env.exchange
        post == <<Req("oauth2_token", "client_credentials")>>
    IN IF c.clientID \/ c.clientSecret
       THEN IF x.err THEN [done |-> FALSE, plays |-> 0, reqs |-> post]
            ELSE IF x.status = StatusOK /\ x.decodes /\ x.token
            THEN LET r == resolveSoundCloudWithToken(x.resolve, "exchanged_token")
                 IN [done |-> r.ok, plays |-> r.plays, reqs |-> post \o r.reqs]
            ELSE [done |-> FALSE, plays |-> 0, reqs |-> post]
       ELSE NotTried

ExchangeStep(c, env) ==
    LET x == env.exchange
        post == <<Req("oauth2_token", "client_credentials")>>
    IN IF c.clientID /\ c.clientSecret
       THEN IF x.err THEN [done |-> FALSE, plays |-> 0, reqs |-> post]
            ELSE IF x.status = StatusOK /\ x.decodes /\ x.token
            THEN LET r == resolveSoundCloudWithToken(x.resolve, "exchanged_token")
                 IN [done |-> r.ok, plays |-> r.plays, reqs |-> post \o r.reqs]
            ELSE [done |-> FALSE, plays |-> 0, reqs |-> post]
       ELSE NotTried

\* step 3: resolve?client_id=...; the body of a redirect target is decoded
\* whatever its status
LegacyStep(c, env) ==
    LET t == env.legacy
        r1 == <<Req("resolve", "client_id")>>
        r2 == r1 \o <<Req("redirect", "client_id")>>
    IN IF ~c.clientID THEN NotTried
       ELSE IF t.first.err THEN [done |-> FALSE, plays |-> 0, reqs |-> r1]
       ELSE IF t.first.status = StatusOK /\ t.first.decodes
       THEN [done |-> TRUE, plays |-> t.first.count, reqs |-> r1]
       ELSE IF t.first.status = StatusFound
       THEN IF ~t.second.err /\ t.second.decodes
            THEN [done |-> TRUE, plays |-> t.second.count, reqs |-> r2]
            ELSE [done |-> FALSE, plays |-> 0, reqs |-> r2]
       ELSE [done |-> FALSE, plays |-> 0, reqs |-> r1]

\* step 4: the page itself; a pattern's match is [found, atoiOk, value]
ScrapeStep(env) ==
    LET g == env.page
        get == <<Req("page", "none")>>
    IN IF g.err THEN [done |-> TRUE, plays |-> 0, reqs |-> get]
       ELSE IF g.readErr THEN [done |-> TRUE, plays |-> 0, reqs |-> get]
       ELSE IF g.quoted.found /\ g.quoted.atoiOk
       THEN [done |-> TRUE, plays |-> g.quoted.value, reqs |-> get]
       ELSE IF g.unquoted.found /\ g.unquoted.atoiOk
       THEN [done |-> TRUE, plays |-> g.unquoted.value, reqs |-> get]
       ELSE [done |-> TRUE, plays |-> 0, reqs |-> get]

\* getSoundcloudPlays: by names the step whose return statement ran
getSoundcloudPlays(c, env) ==
    LET s1 == TokenStep(c, env)
        s2 == ExchangeStep(c, env)
        s3 == LegacyStep(c, env)
        s4 == ScrapeStep(env)
    IN IF s1.done
       THEN [plays |-> s1.plays, by |-> "token", reqs |-> s1.reqs]
       ELSE IF s2.done
       THEN [plays |-> s2.plays, by |-> "exchange", reqs |-> s1.reqs \o s2.reqs]
       ELSE IF s3.done
       THEN [plays |-> s3.plays, by |-> "legacy",
             reqs |-> s1.reqs \o s2.reqs \o s3.reqs]
       ELSE [plays |-> s4.plays, by |-> "page",
             reqs |-> s1.reqs \o s2.reqs \o s3.reqs \o s4.reqs]

\* getYouTubePlays: url is "ok" when one of the two patterns finds a video id;
\* r is [err, status, decodes, items, scanOk, viewCount]
getYouTubePlays(c, url, r) ==
    IF ~c.youtubeKey THEN [plays |-> 0, reqs |-> <<>>]
    ELSE IF url # "ok" THEN [plays |-> 0, reqs |-> <<>>]
    ELSE LET reqs == <<Req("youtube_api", "api_key")>>
         IN IF r.err THEN [plays |-> 0, reqs |-> reqs]
            ELSE IF r.status # StatusOK THEN [plays |-> 0, reqs |-> reqs]
            ELSE IF ~r.decodes THEN [plays |-> 0, reqs |-> reqs]
            ELSE IF r.items = 0 THEN [plays |-> 0, reqs |-> reqs]
            ELSE IF ~r.scanOk THEN [plays |-> 0, reqs |-> reqs]
            ELSE [plays |-> r.viewCount, reqs |-> reqs]

-----------------------------------------------------------------------------
(* Inputs: list files, credentials and the answers of the network *)

MaxLines == 2
MaxTieLines == 7
MaxMixedLines == 4

LineTestSet ==
    <<"*", " ", "[", "T", "e", "s", "t", " ", "S", "e", "t", "]", "(", "h", "t",
      "t", "p", ":", "/", "/", "e", "x", "a", "m", "p", "l", "e", ".", "t", "e",
      "s", "t", "/", "s", "e", "t", ")">>
LineSameLink ==
    <<"*", " ", "[", "b", "]", "(", "h", "t", "t", "p", ":", "/", "/", "e", "x",
      "a", "m", "p", "l", "e", ".", "t", "e", "s", "t", "/", "s", "e", "t", ")",
      " ", "_", "/", "/", "_", " ", "7", Headphones>>
LineIndented ==
    <<" ", " ", "*", " ", "[", "b", "]", "(", "h", "t", "t", "p", ":", "/", "/",
      "y", ")", " ">>
LineRaw == <<"*", " ", "d">>
LineRawPadded == <<"\f", "*", " ", "d", NoBreakSpace>>
LineEmptyLink == <<"*", " ", "[", "e", "]", "(", ")">>
LineHeading == <<"#", " ", "h">>
\* a link that reads like the unlinked line LineRaw, under a name that holds
\* a count marker
LineKeyClash == <<"*", " ", "[", "9", Headphones, "]", "(", "*", " ", "d", ")">>
LineBareLink ==
    <<"*", " ", "d", " ", "(", "h", "t", "t", "p", ":", "/", "/", "e", "x", "a",
      "m", "p", "l", "e", ".", "t", "e", "s", "t", "/", "s", "e", "t", ")">>
LineRawOther == <<"*", " ", "k">>
LineRawCounted == <<"*", " ", "g", " ", "1", "2", Headphones>>
\* a line of MaxScanTokenSize bytes, and a list item of that many
RECURSIVE Repeat(_, _)
Repeat(c, n) ==
    IF n = 0 THEN <<>>
    ELSE IF n % 2 = 1 THEN <<c>> \o Repeat(c, n - 1)
    ELSE LET half == Repeat(c, n \div 2) IN half \o half

LineTooLong == Repeat("x", MaxScanTokenSize)
LineLongItem == ListMarker \o Repeat("x", MaxScanTokenSize - Len(ListMarker))
\* a list item that ends with a marker and is MaxScanTokenSize bytes with it
LineLongMarked ==
    ListMarker \o Repeat("x", MaxScanTokenSize - Len(ListMarker) - MarkerBytes)
               \o <<Headphones>>
\* a count of twenty digits, more than an int holds
LineRawHuge ==
    <<"*", " ", "g", " ", "9", "9", "9", "9", "9", "9", "9", "9", "9", "9", "9",
      "9", "9", "9", "9", "9", "9", "9", "9", "9", Headphones>>

\* a file is written with the names of its lines; LineText gives the
\* characters of a named line
LineText(name) ==
    CASE name = "LineTestSet" -> LineTestSet
      [] name = "LineSameLink" -> LineSameLink
      [] name = "LineIndented" -> LineIndented
      [] name = "LineRaw" -> LineRaw
      [] name = "LineRawPadded" -> LineRawPadded
      [] name = "LineEmptyLink" -> LineEmptyLink
      [] name = "LineHeading" -> LineHeading
      [] name = "LineKeyClash" -> LineKeyClash
      [] name = "LineBareLink" -> LineBareLink
      [] name = "LineRawOther" -> LineRawOther
      [] name = "LineRawCounted" -> LineRawCounted
      [] name = "LineRawHuge" -> LineRawHuge
      [] name = "LineTooLong" -> LineTooLong
      [] name = "LineLongItem" -> LineLongItem
      [] name = "LineLongMarked" -> LineLongMarked

RECURSIVE TextOf(_)
TextOf(lineNames) ==
    IF lineNames = <<>> THEN <<>>
    ELSE Append(TextOf(SubSeq(lineNames, 1, Len(lineNames) - 1)),
                LineText(lineNames[Len(lineNames)]))

SampleLines ==
    {"LineTestSet", "LineSameLink", "LineIndented", "LineRaw", "LineRawPadded",
     "LineEmptyLink", "LineHeading", "LineKeyClash"}

\* unlinked lines, which sort mode never drops: long files of them reach the
\* slice lengths at which the two sort algorithms differ
TieLines == {"LineRaw", "LineRawOther", "LineRawCounted"}

\* lines with and without a link and a count, for sort mode
MixedLines ==
    {"LineRaw", "LineRawCounted", "LineRawHuge", "LineTestSet",
     "LineSameLink", "LineBareLink"}

SeqsUpTo(S, n) == UNION {[1..k -> S] : k \in 0..n}

\* a file: whether os.Open succeeds, the lines its reads give (by name), and
\* whether a read fails after them (a directory opens, and its first read
\* fails)
Unreadable == [readable |-> FALSE, lineNames |-> <<>>, readErr |-> FALSE]
Readable(lineNames) ==
    [readable |-> TRUE, lineNames |-> lineNames, readErr |-> FALSE]
ReadFails(lineNames) ==
    [readable |-> TRUE, lineNames |-> lineNames, readErr |-> TRUE]

\* the lines of a file
FileLines(f) == TextOf(f.lineNames)

\* ioutil.ReadFile fails when the file does not open or a read fails
ReadFileFails(f) == ~f.readable \/ f.readErr

\* files with a line the scanner's buffer cannot hold
LongFiles ==
    {Readable(<<"LineTooLong", "LineRaw">>),
     Readable(<<"LineTooLong", "LineTestSet">>),
     Readable(<<"LineRaw", "LineTooLong", "LineRawOther">>),
     Readable(<<"LineRaw", "LineLongItem">>),
     Readable(<<"LineLongMarked", "LineRaw">>)}

\* an unlinked list item that holds a count
CountedFiles == {Readable(<<"LineRawCounted">>)}

\* a directory, and a file whose reads fail after one line
FailingFiles == {ReadFails(<<>>), ReadFails(<<"LineRaw">>)}

Files ==
    {Unreadable} \cup {Readable(l) : l \in SeqsUpTo(SampleLines, MaxLines)}
                 \cup LongFiles \cup FailingFiles \cup CountedFiles
SortFiles ==
    Files \cup {Readable(l) : l \in SeqsUpTo(TieLines, MaxTieLines)}
          \cup {Readable(l) : l \in SeqsUpTo(MixedLines, MaxMixedLines)}

Config(token, id, secret, key) ==
    [oauthToken |-> token, clientID |-> id, clientSecret |-> secret,
     youtubeKey |-> key]

AllSet == Config(TRUE, TRUE, TRUE, TRUE)
NoneSet == Config(FALSE, FALSE, FALSE, FALSE)
MainConfigs == {AllSet, NoneSet}
ScConfigs == {Config(t, i, s, FALSE) : t \in BOOLEAN, i \in BOOLEAN, s \in BOOLEAN}

OkHop(c) == [err |-> FALSE, status |-> StatusOK, decodes |-> TRUE, count |-> c]
BadHop == [err |-> FALSE, status |-> StatusOK, decodes |-> FALSE, count |-> 0]
StatusHop(st, d) == [err |-> FALSE, status |-> st, decodes |-> d, count |-> 0]

\* playback_count values a resolve answers with: JSON numbers, of either sign
ScCounts == {-2, 0, 5}

FirstHops == {NoHop, BadHop, StatusHop(StatusUnauthorized, FALSE)}
                \cup {OkHop(c) : c \in ScCounts}
SecondHops == {NoHop, BadHop, StatusHop(404, TRUE)}
                \cup {OkHop(c) : c \in ScCounts}
TwoHops == {[first |-> h, second |-> NoHop] : h \in FirstHops}
             \cup {[first |-> StatusHop(StatusFound, FALSE), second |-> h] :
                     h \in SecondHops}
FailedResolve == [first |-> NoHop, second |-> NoHop]

Exchange(err, st, d, tok, res) ==
    [err |-> err, status |-> st, decodes |-> d, token |-> tok, resolve |-> res]
FailedExchange == Exchange(TRUE, 0, FALSE, FALSE, FailedResolve)
Exchanges ==
    {FailedExchange,
     Exchange(FALSE, StatusUnauthorized, FALSE, FALSE, FailedResolve),
     Exchange(FALSE, StatusOK, FALSE, FALSE, FailedResolve),
     Exchange(FALSE, StatusOK, TRUE, FALSE, FailedResolve)}
      \cup {Exchange(FALSE, StatusOK, TRUE, TRUE, t) : t \in TwoHops}

NoMatch == [found |-> FALSE, atoiOk |-> FALSE, value |-> 0]
Match(v) == [found |-> TRUE, atoiOk |-> TRUE, value |-> v]
Overflow == [found |-> TRUE, atoiOk |-> FALSE, value |-> 0]
Page(err, readErr, q, u) ==
    [err |-> err, readErr |-> readErr, quoted |-> q, unquoted |-> u]
EmptyPage == Page(FALSE, FALSE, NoMatch, NoMatch)
Pages ==
    {Page(TRUE, FALSE, NoMatch, NoMatch), Page(FALSE, TRUE, NoMatch, NoMatch),
     EmptyPage, Page(FALSE, FALSE, Match(9), Match(3)),
     Page(FALSE, FALSE, Overflow, Match(3))}

ScEnv(t, x, l, g) == [tokenResolve |-> t, exchange |-> x, legacy |-> l, page |-> g]
ScEnvs == {ScEnv(t, x, l, g) : t \in TwoHops, x \in Exchanges, l \in TwoHops,
                               g \in Pages}

\* what one loop iteration of main meets: the answer to the page fetch, the
\* provider links in the page, and the providers' answers
YtAnswer(n) == [err |-> FALSE, status |-> StatusOK, decodes |-> TRUE,
                items |-> 1, scanOk |-> TRUE, viewCount |-> n]
World(fetchErr, mixcloud, soundcloud, youtube, mix, sc, yt) ==
    [fetchErr |-> fetchErr,
     page |-> [mixcloud |-> mixcloud, soundcloud |-> soundcloud,
               youtube |-> youtube],
     mix |-> mix, sc |-> sc, yt |-> yt]
QuietSc == ScEnv(FailedResolve, FailedExchange, FailedResolve, EmptyPage)
ScrapedSc ==
    ScEnv([first |-> OkHop(40), second |-> NoHop], FailedExchange, FailedResolve,
          Page(FALSE, FALSE, Match(5), NoMatch))

QuietWorld == World(FALSE, "none", FALSE, "none", NoHop, QuietSc, YtAnswer(0))

MainWorlds ==
    {World(TRUE, "ok", TRUE, "ok", OkHop(7), ScrapedSc, YtAnswer(2500)),
     QuietWorld,
     World(FALSE, "none", FALSE, "ok", NoHop, QuietSc, YtAnswer(2500)),
     World(FALSE, "ok", TRUE, "noid", OkHop(7), ScrapedSc, YtAnswer(2500)),
     World(FALSE, "ok", FALSE, "none", OkHop(1450000), QuietSc, YtAnswer(0)),
     World(FALSE, "ok", FALSE, "none", OkHop(-3), QuietSc, YtAnswer(0)),
     World(FALSE, "nouser", FALSE, "none", OkHop(7), QuietSc, YtAnswer(0))}

-----------------------------------------------------------------------------
(* The program *)

ErrText == "<err>"
SortErrorLine == <<"E", "r", "r", "o", "r", ":", " ", ErrText>>
ReadErrorLine ==
    <<"E", "r", "r", "o", "r", " ", "r", "e", "a", "d", "i", "n", "g", " ", "a",
      "l", "l", "-", "s", "e", "t", "s", ".", "m", "d", ":", " ", ErrText>>
TotalPlaysPrefix ==
    <<"T", "o", "t", "a", "l", " ", "p", "l", "a", "y", "s", ":", " ", "*", "*">>
TotalSetsPrefix ==
    <<"T", "o", "t", "a", "l", " ", "a", "m", "o", "u", "n", "t", " ", "o", "f",
      " ", "s", "e", "t", "s", ":", " ", "*", "*">>
PlaysSeparator == <<" ", "_", "/", "/", "_", " ">>

\* "* [%s](%s)"
LinkedLine(name, link) ==
    <<"*", " ", "[">> \o name \o <<"]", "(">> \o link \o <<")">>

\* the count of an annotated entry line: %d
EntryCountMutant(plays) == formatPlays(plays)

EntryCount(plays) == Itoa(plays)

\* "* [%s](%s) _//_ %d<headphones>"
AnnotatedLine(name, link, plays) ==
    LinkedLine(name, link) \o PlaysSeparator \o EntryCount(plays)
        \o <<Headphones>>

\* "\nTotal plays: **%s<headphones>**\n" and "Total amount of sets: **%d<notes>**\n"
TotalPlaysLine(n) ==
    TotalPlaysPrefix \o formatPlays(n) \o <<Headphones, "*", "*">>
TotalSetsLine(n) == TotalSetsPrefix \o Itoa(n) \o <<Notes, "*", "*">>

\* lastEntry before the first iteration; world is the iteration's input
NoEntry ==
    [idx |-> 0, linked |-> FALSE, fetched |-> FALSE, detected |-> FALSE,
     calls |-> <<>>, reqs |-> <<>>, plays |-> 0, line |-> <<>>,
     world |-> QuietWorld]

\* the provider part of one loop iteration: the resolvers called, in order,
\* their requests and the sum of their counts
Resolve(c, w) ==
    LET m == IF w.page.mixcloud # "none"
             THEN getMixcloudPlays(w.page.mixcloud, w.mix)
             ELSE [plays |-> 0, reqs |-> <<>>]
        s == IF w.page.soundcloud
             THEN getSoundcloudPlays(c, w.sc)
             ELSE [plays |-> 0, reqs |-> <<>>]
        y == IF w.page.youtube # "none"
             THEN getYouTubePlays(c, w.page.youtube, w.yt)
             ELSE [plays |-> 0, reqs |-> <<>>]
    IN [plays |-> m.plays + s.plays + y.plays,
        reqs |-> m.reqs \o s.reqs \o y.reqs,
        calls |-> (IF w.page.mixcloud # "none" THEN <<"getMixcloudPlays">> ELSE <<>>)
                  \o (IF w.page.soundcloud THEN <<"getSoundcloudPlays">> ELSE <<>>)
                  \o (IF w.page.youtube # "none" THEN <<"getYouTubePlays">> ELSE <<>>)]

\* one loop iteration past the dedup check, for the entry (name, link, raw):
\* the line printed, the plays added to the grand total, and what was done on
\* the network to get there
EntryOutcomeMutant(c, w, name, link, raw) ==
    LET r == Resolve(c, w)
    IN IF link = <<>> THEN [NoEntry EXCEPT !.line = raw, !.world = w]
       ELSE [linked |-> TRUE, fetched |-> TRUE, detected |-> TRUE,
             calls |-> r.calls, reqs |-> r.reqs, plays |-> r.plays, idx |-> 0,
             world |-> w,
             line |-> IF r.plays > 0 THEN AnnotatedLine(name, link, r.plays)
                      ELSE LinkedLine(name, link)]

EntryOutcome(c, w, name, link, raw) ==
    LET r == Resolve(c, w)
    IN IF link = <<>> THEN [NoEntry EXCEPT !.line = raw, !.world = w]
       ELSE IF w.fetchErr
       THEN [NoEntry EXCEPT !.linked = TRUE, !.fetched = TRUE,
                            !.line = LinkedLine(name, link), !.world = w]
       ELSE [linked |-> TRUE, fetched |-> TRUE, detected |-> TRUE,
             calls |-> r.calls, reqs |-> r.reqs, plays |-> r.plays, idx |-> 0,
             world |-> w,
             line |-> IF r.plays > 0 THEN AnnotatedLine(name, link, r.plays)
                      ELSE LinkedLine(name, link)]

\* fetchURL(link), once for an entry with a link, whatever its outcome
PageFetchesMutant(w, link) ==
    IF link = <<>> THEN <<>>
    ELSE IF w.fetchErr THEN <<link, link>> ELSE <<link>>

PageFetches(w, link) == IF link = <<>> THEN <<>> ELSE <<link>>

\* totalSets++ : right after the dedup check, before the link is looked at
CountSetMutant(n, link) == IF link = <<>> THEN n ELSE n + 1

CountSet(n, link) == n + 1

\* the exit code of a normal-mode run that could not read the file: main
\* returns
ReadErrorExit == 0
SortErrorExit == 1

\* main, sort mode: printSortedSets on a file ioutil.ReadFile reads
SortModeOk ==
    /\ pc = "start"
    /\ args = "sort"
    /\ ~ReadFileFails(file)
    /\ \E sorted \in SortSlice(SortEntries(FileLines(file))) :
          out' = [i \in 1..Len(sorted) |-> sorted[i].line]
    /\ exitCode' = 0
    /\ pc' = "done"
    /\ UNCHANGED <<fetches, ytIn, ytOut,
                   args, file, cfg, setNames, setLinks, rawLines, idx,
                   processed, totalPlays, totalSets, lastEntry, scIn, scOut,
                   fmtIn, fmtOut>>

\* main, sort mode: ioutil.ReadFile fails
SortModeFail ==
    /\ pc = "start"
    /\ args = "sort"
    /\ ReadFileFails(file)
    /\ out' = <<SortErrorLine>>
    /\ exitCode' = SortErrorExit
    /\ pc' = "done"
    /\ UNCHANGED <<fetches, ytIn, ytOut,
                   args, file, cfg, setNames, setLinks, rawLines, idx,
                   processed, totalPlays, totalSets, lastEntry, scIn, scOut,
                   fmtIn, fmtOut>>

\* main, normal mode: extractSetLinks on a file that opens, up to the loop
ParseOk ==
    /\ pc = "start"
    /\ args # "sort"
    /\ file.readable
    /\ LET r == extractSetLinks(FileLines(file))
       IN /\ setNames' = r.names
          /\ setLinks' = r.links
          /\ rawLines' = r.rawLines
    /\ totalPlays' = 0
    /\ totalSets' = 0
    /\ processed' = {}
    /\ idx' = 1
    /\ pc' = "loop"
    /\ UNCHANGED <<fetches, ytIn, ytOut,
                   args, file, cfg, out, exitCode, lastEntry, scIn, scOut,
                   fmtIn, fmtOut>>

\* main, normal mode: os.Open fails
ParseFail ==
    /\ pc = "start"
    /\ args # "sort"
    /\ ~file.readable
    /\ out' = <<ReadErrorLine>>
    /\ exitCode' = ReadErrorExit
    /\ pc' = "done"
    /\ UNCHANGED <<fetches, ytIn, ytOut,
                   args, file, cfg, setNames, setLinks, rawLines, idx,
                   processed, totalPlays, totalSets, lastEntry, scIn, scOut,
                   fmtIn, fmtOut>>

\* one iteration of main's loop
ProcessEntry ==
    /\ pc = "loop"
    /\ idx <= Len(setLinks)
    /\ \E w \in MainWorlds :
        LET link == setLinks[idx]
            key == IF link = <<>> THEN rawLines[idx] ELSE link
            e == EntryOutcome(cfg, w, setNames[idx], link, rawLines[idx])
        IN IF key \in processed
           THEN UNCHANGED <<processed, totalSets, totalPlays, out, lastEntry,
                            fetches>>
           ELSE /\ processed' = processed \cup {key}
                /\ totalSets' = CountSet(totalSets, link)
                /\ out' = Append(out, e.line)
                /\ totalPlays' = totalPlays + e.plays
                /\ lastEntry' = [e EXCEPT !.idx = idx]
                /\ fetches' = fetches \o PageFetches(w, link)
    /\ idx' = idx + 1
    /\ UNCHANGED <<ytIn, ytOut,
                   args, file, cfg, pc, setNames, setLinks, rawLines, exitCode,
                   scIn, scOut, fmtIn, fmtOut>>

\* an iteration of main's loop for an entry with a link in which a network
\* call (fetchURL's http.Get, or a request of a resolver) never returns: no
\* call has a timeout, so main waits in it and prints nothing more
Stall ==
    /\ pc = "loop"
    /\ idx <= Len(setLinks)
    /\ LET link == setLinks[idx]
       IN /\ link # <<>>
          /\ link \notin processed
          /\ processed' = processed \cup {link}
          /\ totalSets' = CountSet(totalSets, link)
          /\ fetches' = fetches \o PageFetches(QuietWorld, link)
    /\ pc' = "blocked"
    /\ UNCHANGED <<ytIn, ytOut,
                   args, file, cfg, setNames, setLinks, rawLines, idx,
                   totalPlays, out, exitCode, lastEntry, scIn, scOut, fmtIn,
                   fmtOut>>

\* the two summary lines after the loop, and main's return
Summary ==
    /\ pc = "loop"
    /\ idx > Len(setLinks)
    /\ out' = out \o <<<<>>, TotalPlaysLine(totalPlays), TotalSetsLine(totalSets)>>
    /\ exitCode' = 0
    /\ pc' = "done"
    /\ UNCHANGED <<fetches, ytIn, ytOut,
                   args, file, cfg, setNames, setLinks, rawLines, idx,
                   processed, totalPlays, totalSets, lastEntry, scIn, scOut,
                   fmtIn, fmtOut>>

-----------------------------------------------------------------------------
(* Harnesses for the two pure functions *)

NoScIn == [cfg |-> NoneSet, env |-> QuietSc]
NoScOut == [called |-> FALSE, plays |-> 0, by |-> "none", reqs |-> <<>>]

\* getSoundcloudPlays on one configuration and one behaviour of the servers
CallSoundcloud ==
    /\ pc = "resolver"
    /\ LET r == getSoundcloudPlays(scIn.cfg, scIn.env)
       IN scOut' = [called |-> TRUE, plays |-> r.plays, by |-> r.by,
                    reqs |-> r.reqs]
    /\ pc' = "resolved"
    /\ UNCHANGED <<fetches, ytIn, ytOut,
                   args, file, cfg, setNames, setLinks, rawLines, idx,
                   processed, totalPlays, totalSets, out, exitCode, lastEntry,
                   scIn, fmtIn, fmtOut>>

\* formatPlays on one number
CallFormatPlays ==
    /\ pc = "format"
    /\ fmtOut' = formatPlays(fmtIn)
    /\ pc' = "formatted"
    /\ UNCHANGED <<fetches, ytIn, ytOut,
                   args, file, cfg, setNames, setLinks, rawLines, idx,
                   processed, totalPlays, totalSets, out, exitCode, lastEntry,
                   scIn, scOut, fmtIn>>

\* the answers of the YouTube statistics endpoint: a transport error, a
\* refusal, a body that does not decode, no item, a viewCount that is not a
\* number, and viewCount strings of either sign
YtReply(err, st, d, items, scanOk, n) ==
    [err |-> err, status |-> st, decodes |-> d, items |-> items,
     scanOk |-> scanOk, viewCount |-> n]
YtCounts == {-4, 0, 2500}
YtAnswers ==
    {YtReply(TRUE, 0, FALSE, 0, FALSE, 0),
     YtReply(FALSE, StatusUnauthorized, TRUE, 1, TRUE, 0),
     YtReply(FALSE, StatusOK, FALSE, 0, FALSE, 0),
     YtReply(FALSE, StatusOK, TRUE, 0, FALSE, 0),
     YtReply(FALSE, StatusOK, TRUE, 1, FALSE, 0)}
      \cup {YtAnswer(n) : n \in YtCounts}
YtUrls == {"ok", "noid"}
YtConfigs == {Config(FALSE, FALSE, FALSE, k) : k \in BOOLEAN}

NoYtIn == [cfg |-> NoneSet, url |-> "noid", answer |-> YtAnswer(0)]
NoYtOut == [called |-> FALSE, plays |-> 0, reqs |-> <<>>]

\* getYouTubePlays on one configuration, one URL and one answer of the server
CallYouTube ==
    /\ pc = "youtube"
    /\ LET r == getYouTubePlays(ytIn.cfg, ytIn.url, ytIn.answer)
       IN ytOut' = [called |-> TRUE, plays |-> r.plays, reqs |-> r.reqs]
    /\ pc' = "resolved"
    /\ UNCHANGED <<args, file, cfg, setNames, setLinks, rawLines, idx,
                   processed, totalPlays, totalSets, out, exitCode, lastEntry,
                   scIn, scOut, fmtIn, fmtOut, fetches, ytIn>>

-----------------------------------------------------------------------------
(* Specifications *)

MaxFormatBase == 60

\* numbers around the multiples of 1, 50, 5000 and 50000: the three tiers,
\* their borders and the halves between two tenths
FormatInputs ==
    {n \in {b * st + d : b \in 0..MaxFormatBase, st \in {1, 50, 5000, 50000},
                         d \in {-1, 0, 1}} : n >= 0}
      \cup {999949, 999950}

Idle ==
    /\ setNames = <<>>
    /\ setLinks = <<>>
    /\ rawLines = <<>>
    /\ idx = 0
    /\ processed = {}
    /\ totalPlays = 0
    /\ totalSets = 0
    /\ out = <<>>
    /\ exitCode = -1
    /\ lastEntry = NoEntry
    /\ scOut = NoScOut
    /\ fmtOut = <<>>
    /\ fetches = <<>>
    /\ ytOut = NoYtOut

\* the program, in either mode
Init ==
    /\ pc = "start"
    /\ args \in {"none", "sort"}
    /\ file \in Files
    /\ cfg \in MainConfigs
    /\ scIn = NoScIn
    /\ fmtIn = 0
    /\ ytIn = NoYtIn
    /\ Idle

Next ==
    \/ SortModeOk
    \/ SortModeFail
    \/ ParseOk
    \/ ParseFail
    \/ ProcessEntry
    \/ Stall
    \/ Summary

Spec == Init /\ [][Next]_vars

\* main taking its first branch: whatever the arguments and the file, one of
\* the four first steps (SortModeOk, SortModeFail, ParseOk, ParseFail) can be
\* taken, and each of them leaves "start"
LeaveStart == pc = "start" /\ pc' \in {"loop", "done"}

\* the program as a process that is scheduled until it exits: main is
\* sequential and takes its next step whenever it can; an iteration whose
\* calls return is ProcessEntry, and nothing makes a call return (Stall)
SpecFair ==
    Init /\ [][Next]_vars
        /\ WF_pc(LeaveStart) /\ WF_vars(ProcessEntry) /\ WF_vars(Summary)

\* sort mode, on the long files too
InitSort ==
    /\ pc = "start"
    /\ args = "sort"
    /\ file \in SortFiles
    /\ cfg = NoneSet
    /\ scIn = NoScIn
    /\ fmtIn = 0
    /\ ytIn = NoYtIn
    /\ Idle

NextSort ==
    \/ SortModeOk
    \/ SortModeFail

SpecSort == InitSort /\ [][NextSort]_vars

\* the SoundCloud resolver alone, on every configuration and server behaviour
InitResolver ==
    /\ pc = "resolver"
    /\ args = "none"
    /\ file = Unreadable
    /\ cfg = NoneSet
    /\ scIn \in {[cfg |-> c, env |-> e] : c \in ScConfigs, e \in ScEnvs}
    /\ fmtIn = 0
    /\ ytIn = NoYtIn
    /\ Idle

NextResolver == CallSoundcloud

SpecResolver == InitResolver /\ [][NextResolver]_vars

\* the two resolvers that need credentials, each alone
InitProviders ==
    /\ args = "none"
    /\ file = Unreadable
    /\ cfg = NoneSet
    /\ fmtIn = 0
    /\ Idle
    /\ \/ /\ pc = "resolver"
          /\ scIn \in {[cfg |-> c, env |-> e] : c \in ScConfigs, e \in ScEnvs}
          /\ ytIn = NoYtIn
       \/ /\ pc = "youtube"
          /\ scIn = NoScIn
          /\ ytIn \in {[cfg |-> c, url |-> u, answer |-> a] :
                          c \in YtConfigs, u \in YtUrls, a \in YtAnswers}

NextProviders ==
    \/ CallSoundcloud
    \/ CallYouTube

SpecProviders == InitProviders /\ [][NextProviders]_vars

\* formatPlays alone
InitFormat ==
    /\ pc = "format"
    /\ args = "none"
    /\ file = Unreadable
    /\ cfg = NoneSet
    /\ scIn = NoScIn
    /\ fmtIn \in FormatInputs
    /\ ytIn = NoYtIn
    /\ Idle

NextFormat == CallFormatPlays

SpecFormat == InitFormat /\ [][NextFormat]_vars

-----------------------------------------------------------------------------
(* Properties of the list parser and of normal mode *)

NormalDone == pc = "done" /\ args # "sort" /\ file.readable

\* the entry lines of a finished normal-mode run: all but the three lines of
\* the summary
EntryLines == SubSeq(out, 1, Len(out) - 3)

TrimmedLine(i) == TrimSpace(LineText(file.lineNames[i]))
IsListItem(i) == HasPrefix(TrimmedLine(i), ListMarker)

\* the dedup key as the data model states it: the link when the line has a
\* non-empty one, the trimmed line otherwise
KeyOfLine(t) ==
    LET m == MarkdownLink(t)
    IN IF m.ok /\ m.link # <<>> THEN m.link ELSE t

\* for the first n lines of the file: whether the line is a list item, and
\* its key
RECURSIVE KeysUpTo(_)
KeysUpTo(n) ==
    IF n = 0 THEN <<>>
    ELSE Append(KeysUpTo(n - 1),
                [item |-> IsListItem(n), key |-> KeyOfLine(TrimmedLine(n))])

FileKeys == KeysUpTo(Len(file.lineNames))

\* the keys of a sequence of printed lines
RECURSIVE KeysOf(_)
KeysOf(ls) ==
    IF ls = <<>> THEN <<>>
    ELSE Append(KeysOf(SubSeq(ls, 1, Len(ls) - 1)), KeyOfLine(ls[Len(ls)]))

\* the file's line numbers that hold the first occurrence of a key, in order
FirstOccurrences ==
    LET keys == FileKeys
        IsFirstOfKey(i) ==
            /\ keys[i].item
            /\ \A j \in 1..(i - 1) :
                  keys[j].item => keys[j].key # keys[i].key
    IN SelectSeq([i \in 1..Len(file.lineNames) |-> i], IsFirstOfKey)

DistinctKeys ==
    LET keys == FileKeys
    IN {keys[i].key : i \in {j \in 1..Len(file.lineNames) : keys[j].item}}

\* C1: a finished normal-mode run has emitted one entry line per distinct
\* dedup key of the file's list items, the k-th line being that of the k-th
\* first occurrence of a key, and no key twice.
C1_OneLinePerKey ==
    NormalDone =>
        LET first == FirstOccurrences
            printed == KeysOf(EntryLines)
            keys == FileKeys
        IN /\ Len(printed) = Cardinality(DistinctKeys)
           /\ Len(printed) = Len(first)
           /\ \A k \in 1..Len(printed) :
                 printed[k] = keys[first[k]].key
           /\ \A k, m \in 1..Len(printed) : k # m => printed[k] # printed[m]

IsUnlinked(k) == setLinks[k] = <<>>

\* C2 as stated: every unlinked entry is printed exactly as its source line
\* stands in the file, leading and trailing whitespace included.
C2_Original ==
    NormalDone =>
        LET first == FirstOccurrences
        IN \A k \in 1..Len(EntryLines) :
              IsUnlinked(k) => EntryLines[k] = LineText(file.lineNames[first[k]])

\* C2 amended: every unlinked entry is printed as its source line with the
\* leading and trailing whitespace removed, and otherwise byte for byte.
C2_TrimmedPassthrough ==
    NormalDone =>
        LET first == FirstOccurrences
        IN \A k \in 1..Len(EntryLines) :
              IsUnlinked(k) => EntryLines[k] = TrimSpace(LineText(file.lineNames[first[k]]))

\* a finished run that printed the padded unlinked line, without its padding
C2_Witness ==
    /\ NormalDone
    /\ file.lineNames = <<"LineRawPadded", "LineEmptyLink">>
    /\ EntryLines = <<LineRaw, LineEmptyLink>>

\* C3: an iteration whose page fetch fails prints "* [name](link)" alone,
\* calls no resolver, sends no provider request and leaves the grand total as
\* it was.
C3_FetchFailure ==
    [][(/\ pc = "loop"
        /\ idx' = idx + 1
        /\ processed' # processed
        /\ setLinks[idx] # <<>>
        /\ lastEntry'.world.fetchErr)
       => (/\ out' = Append(out, <<"*", " ", "[">> \o setNames[idx]
                                   \o <<"]", "(">> \o setLinks[idx] \o <<")">>)
           /\ totalPlays' = totalPlays
           /\ ~lastEntry'.detected
           /\ lastEntry'.calls = <<>>
           /\ lastEntry'.reqs = <<>>)]_vars

\* an iteration whose fetch failed for a page that names all three providers,
\* after an iteration that had counted plays
C3_Witness ==
    /\ lastEntry.linked
    /\ lastEntry.world.fetchErr
    /\ lastEntry.world.page.soundcloud
    /\ lastEntry.idx = 2
    /\ totalPlays > 0
    /\ out[2] = <<"*", " ", "[", "b", "]", "(", "h", "t", "t", "p", ":", "/",
                  "/", "y", ")">>

DigitsOnly(s) == Len(s) > 0 /\ \A i \in 1..Len(s) : s[i] \in DigitSet

TestSetAnnotated ==
    LineTestSet \o <<" ", "_", "/", "/", "_", " ", "2", "5", "0", "0", Headphones>>
TotalPlays2500 ==
    <<"T", "o", "t", "a", "l", " ", "p", "l", "a", "y", "s", ":", " ", "*", "*",
      "2", ".", "5", "k", Headphones, "*", "*">>

\* C4 as stated: the count on an entry line is in the three-tier format of
\* the totals line.
C4_Original ==
    (lastEntry.detected /\ lastEntry.plays > 0) =>
        lastEntry.line =
            <<"*", " ", "[">> \o setNames[lastEntry.idx] \o <<"]", "(">>
                \o setLinks[lastEntry.idx] \o <<")", " ", "_", "/", "/", "_", " ">>
                \o formatPlays(lastEntry.plays) \o <<Headphones>>

\* C4 amended: the count on an entry line is the plain decimal integer,
\* whatever its size (2500 prints as 2500); the totals line alone is in the
\* three-tier format (2500 prints as 2.5k).
C4_PlainEntryCount ==
    /\ (lastEntry.detected /\ lastEntry.plays > 0) =>
          LET prefix == <<"*", " ", "[">> \o setNames[lastEntry.idx]
                            \o <<"]", "(">> \o setLinks[lastEntry.idx]
                            \o <<")", " ", "_", "/", "/", "_", " ">>
              line == lastEntry.line
              count == SubSeq(line, Len(prefix) + 1, Len(line) - 1)
          IN /\ SubSeq(line, 1, Len(prefix)) = prefix
             /\ line[Len(line)] = Headphones
             /\ DigitsOnly(count)
             /\ count[1] # "0"
             /\ Atoi(count) = lastEntry.plays
             /\ out[lastEntry.idx] = line
    /\ (lastEntry.detected /\ lastEntry.plays = 2500
            /\ setLinks[lastEntry.idx] = MarkdownLink(LineTestSet).link
            /\ setNames[lastEntry.idx] = MarkdownLink(LineTestSet).name)
          => lastEntry.line = TestSetAnnotated
    /\ (NormalDone /\ totalPlays = 2500) => out[Len(out) - 1] = TotalPlays2500

\* the run of the end-to-end example, finished
C4_Witness ==
    /\ NormalDone
    /\ file.lineNames = <<"LineTestSet">>
    /\ lastEntry.calls = <<"getYouTubePlays">>
    /\ out[1] = TestSetAnnotated
    /\ out[3] = TotalPlays2500

-----------------------------------------------------------------------------
(* Properties of formatPlays *)

\* the number a run of digits without a leading zero denotes, -1 otherwise
Denoted(ds) ==
    IF DigitsOnly(ds) /\ (Len(ds) = 1 \/ ds[1] # "0") THEN Atoi(ds) ELSE -1

\* s is "<int>.<digit><suffix>" for the tenths that are nearest to n/unit * 10
\* (either neighbour when n lies halfway between two)
IsNearestTenth(s, n, unit, suffix) ==
    /\ Len(s) >= 4
    /\ s[Len(s)] = suffix
    /\ s[Len(s) - 2] = "."
    /\ s[Len(s) - 1] \in DigitSet
    /\ LET whole == Denoted(SubSeq(s, 1, Len(s) - 3))
           tenths == 10 * whole + DigitValue(s[Len(s) - 1])
       IN /\ whole >= 0
          /\ 2 * (tenths * (unit \div 10) - n) <= unit \div 10
          /\ 2 * (n - tenths * (unit \div 10)) <= unit \div 10

\* C5: formatPlays(n) is the plain integer below 1,000, n/1,000 to the nearest
\* tenth with "k" from 1,000 up to 999,999 and n/1,000,000 to the nearest tenth
\* with "M" from 1,000,000 on; the tier follows n, so 999,950 still ends in
\* "k"; 950, 1500 and 2300000 give "950", "1.5k" and "2.3M".
C5_FormatTiers ==
    pc = "formatted" =>
        /\ fmtIn < 1000 => Denoted(fmtOut) = fmtIn
        /\ (fmtIn >= 1000 /\ fmtIn < 1000000) =>
              IsNearestTenth(fmtOut, fmtIn, 1000, "k")
        /\ fmtIn >= 1000000 => IsNearestTenth(fmtOut, fmtIn, 1000000, "M")
        /\ fmtIn = 950 => fmtOut = <<"9", "5", "0">>
        /\ fmtIn = 1500 => fmtOut = <<"1", ".", "5", "k">>
        /\ fmtIn = 2300000 => fmtOut = <<"2", ".", "3", "M">>

\* the largest input of the middle tier that rounds up to a thousand
C5_Witness ==
    /\ pc = "formatted"
    /\ fmtIn = 999950
    /\ fmtOut = <<"1", "0", "0", "0", ".", "0", "k">>

-----------------------------------------------------------------------------
(* Properties of the SoundCloud fallback chain *)

\* a token resolve that ends in a decoded playback count: a 200 that decodes,
\* or a 302 whose target answers 200 and decodes
TokenDecodes(t) ==
    /\ ~t.first.err
    /\ \/ t.first.status = 200 /\ t.first.decodes
       \/ /\ t.first.status = 302
          /\ ~t.second.err
          /\ t.second.status = 200
          /\ t.second.decodes

\* a legacy resolve that ends in a decoded playback count
LegacyDecodes(t) ==
    /\ ~t.first.err
    /\ \/ t.first.status = 200 /\ t.first.decodes
       \/ t.first.status = 302 /\ ~t.second.err /\ t.second.decodes

DecodedCount(t) == IF t.first.status = 200 THEN t.first.count ELSE t.second.count

\* the token endpoint answers 200 with a non-empty access token
ExchangeSucceeds(x) == ~x.err /\ x.status = 200 /\ x.decodes /\ x.token

IsLegacyRequest(r) == r.auth = "client_id"
IsScrapeRequest(r) == r.endpoint = "page"

OnlyIdAndSecret ==
    /\ scOut.called
    /\ ~scIn.cfg.oauthToken
    /\ scIn.cfg.clientID
    /\ scIn.cfg.clientSecret

\* C6 as stated: with a client id and secret and no token, a successful
\* token exchange is followed by no legacy resolve and no page scrape.
C6_Original ==
    (OnlyIdAndSecret /\ ExchangeSucceeds(scIn.env.exchange)) =>
        \A i \in 1..Len(scOut.reqs) :
            ~IsLegacyRequest(scOut.reqs[i]) /\ ~IsScrapeRequest(scOut.reqs[i])

\* C6 amended: a successful token exchange whose token then resolves the URL
\* to a decoded playback count is followed by no legacy resolve and no page
\* scrape.
C6_ExchangeShortCircuit ==
    (/\ OnlyIdAndSecret
     /\ ExchangeSucceeds(scIn.env.exchange)
     /\ TokenDecodes(scIn.env.exchange.resolve)) =>
        \A i \in 1..Len(scOut.reqs) :
            ~IsLegacyRequest(scOut.reqs[i]) /\ ~IsScrapeRequest(scOut.reqs[i])

\* the exchange, the resolve with its token and the redirect, and nothing else
C6_Witness ==
    /\ OnlyIdAndSecret
    /\ ExchangeSucceeds(scIn.env.exchange)
    /\ scIn.env.exchange.resolve.first.status = 302
    /\ scOut.plays = 5
    /\ Len(scOut.reqs) = 3

\* the place of a request in the chain
Rank(r) ==
    CASE r = Req("resolve", "env_token") -> 1
      [] r = Req("redirect", "env_token") -> 2
      [] r = Req("oauth2_token", "client_credentials") -> 3
      [] r = Req("resolve", "exchanged_token") -> 4
      [] r = Req("redirect", "exchanged_token") -> 5
      [] r = Req("resolve", "client_id") -> 6
      [] r = Req("redirect", "client_id") -> 7
      [] r = Req("page", "none") -> 8
      [] OTHER -> 0

Tried(lo, hi) == \E i \in 1..Len(scOut.reqs) : Rank(scOut.reqs[i]) \in lo..hi
LastRank == IF scOut.reqs = <<>> THEN 0 ELSE Rank(scOut.reqs[Len(scOut.reqs)])

\* a step is out when its configuration is missing or it decodes no count
TokenOut == ~scIn.cfg.oauthToken \/ ~TokenDecodes(scIn.env.tokenResolve)
ExchangeOut ==
    \/ ~(scIn.cfg.clientID /\ scIn.cfg.clientSecret)
    \/ ~ExchangeSucceeds(scIn.env.exchange)
    \/ ~TokenDecodes(scIn.env.exchange.resolve)
LegacyOut == ~scIn.cfg.clientID \/ ~LegacyDecodes(scIn.env.legacy)

\* C7: the requests of getSoundcloudPlays follow the order token resolve,
\* exchange, legacy resolve, page scrape; a step is tried only when every
\* earlier step was unavailable or failed; and the first step that decodes a
\* playback count gives the result, with no request after it.
C7_ChainOrder ==
    scOut.called =>
        /\ \A i, j \in 1..Len(scOut.reqs) :
              i < j => Rank(scOut.reqs[i]) < Rank(scOut.reqs[j])
        /\ \A i \in 1..Len(scOut.reqs) : Rank(scOut.reqs[i]) > 0
        /\ Tried(3, 5) => TokenOut
        /\ Tried(6, 7) => TokenOut /\ ExchangeOut
        /\ Tried(8, 8) => TokenOut /\ ExchangeOut /\ LegacyOut
        /\ ~TokenOut =>
              /\ scOut.plays = DecodedCount(scIn.env.tokenResolve)
              /\ LastRank \in 1..2
        /\ (TokenOut /\ ~ExchangeOut) =>
              /\ scOut.plays = DecodedCount(scIn.env.exchange.resolve)
              /\ LastRank \in 4..5
        /\ (TokenOut /\ ExchangeOut /\ ~LegacyOut) =>
              /\ scOut.plays = DecodedCount(scIn.env.legacy)
              /\ LastRank \in 6..7
        /\ (TokenOut /\ ExchangeOut /\ LegacyOut) => LastRank = 8

\* every credential set: the token resolve fails, the exchanged token fails
\* to resolve, the legacy resolve decodes a count behind a redirect
C7_Witness ==
    /\ scOut.called
    /\ scIn.cfg = Config(TRUE, TRUE, TRUE, FALSE)
    /\ scOut.by = "legacy"
    /\ scOut.plays = 5
    /\ Len(scOut.reqs) = 5

-----------------------------------------------------------------------------
(* Properties of sort mode and of the exit code *)

SortDone == pc = "done" /\ args = "sort" /\ ~ReadFileFails(file)

\* the trimmed list items of the file that survive: a list item is dropped
\* when an earlier list item has its (non-empty) link
Qualifying ==
    LET n == Len(file.lineNames)
        trims == [i \in 1..n |-> TrimSpace(LineText(file.lineNames[i]))]
        links == [i \in 1..n |-> ExtractLink(trims[i])]
        items == {i \in 1..n : HasPrefix(trims[i], ListMarker)}
        Keep(i) ==
            /\ i \in items
            /\ \/ links[i] = <<>>
               \/ \A j \in items : j < i => links[j] # links[i]
        kept == SelectSeq([i \in 1..n |-> i], Keep)
    IN [k \in 1..Len(kept) |-> trims[kept[k]]]

Occurrences(seq, x) == Cardinality({i \in 1..Len(seq) : seq[i] = x})

\* C8: sort mode prints a permutation of the qualifying lines, the extracted
\* counts never increasing from one line to the next (no annotation: 0).
C8_SortedPermutation ==
    SortDone =>
        LET q == Qualifying
            plays == [i \in 1..Len(out) |-> ExtractPlays(out[i])]
        IN /\ Len(out) = Len(q)
           /\ \A x \in {out[i] : i \in 1..Len(out)} :
                 Occurrences(out, x) = Occurrences(q, x)
           /\ \A i \in 1..(Len(out) - 1) : plays[i] >= plays[i + 1]

\* a duplicate link dropped and the three lines left put in another order
C8_Witness ==
    /\ SortDone
    /\ file.lineNames = <<"LineRaw", "LineSameLink", "LineRawCounted", "LineSameLink">>
    /\ out = <<LineRawCounted, LineSameLink, LineRaw>>

WithPlays(seq, c) ==
    LET Has(l) == ExtractPlays(l) = c
    IN SelectSeq(seq, Has)

\* C9: sort mode keeps the input order among the lines of equal count: for
\* every count, the printed lines with that count are the qualifying lines
\* with that count, in the order of the file.
C9_Stable ==
    SortDone =>
        LET q == Qualifying
        IN \A c \in {ExtractPlays(out[i]) : i \in 1..Len(out)} :
              WithPlays(out, c) = WithPlays(q, c)

\* C10: in either mode the process ends with exit code 0 when the file was
\* read, and with an error message and a non-zero exit code when it was not.
C10_ExitCode ==
    pc = "done" =>
        /\ ~ReadFileFails(file) => exitCode = 0
        /\ ReadFileFails(file) =>
              /\ exitCode # 0
              /\ Len(out) = 1
              /\ HasPrefix(out[1], <<"E", "r", "r", "o", "r">>)

-----------------------------------------------------------------------------
(* Properties of the counts and of the run as a whole *)

\* C11: every resolver returns a non-negative count whatever the provider
\* answers, so that the sum of an entry's counts and the running grand total
\* are never negative.
C11_NonNegative ==
    /\ totalPlays >= 0
    /\ lastEntry.plays >= 0
    /\ lastEntry.detected =>
          LET w == lastEntry.world
          IN /\ getMixcloudPlays(w.page.mixcloud, w.mix).plays >= 0
             /\ getSoundcloudPlays(cfg, w.sc).plays >= 0
             /\ getYouTubePlays(cfg, w.page.youtube, w.yt).plays >= 0

NormalStart == pc = "start" /\ args # "sort" /\ file.readable

LinkedEntries ==
    LET HasLink(l) == l # <<>>
    IN SelectSeq(setLinks, HasLink)

Stalled == pc = "blocked"

\* what holds at the end of a normal-mode run: every unique entry went
\* through the loop once, the page of every linked entry was fetched once and
\* no other, one line was printed per entry, and the last two lines are the
\* total of the plays and the total of the sets
EndOfRun ==
    /\ idx = Len(setLinks) + 1
    /\ Cardinality(processed) = Len(setLinks)
    /\ fetches = LinkedEntries
    /\ Len(out) = Len(setLinks) + 3
    /\ HasPrefix(out[Len(out) - 1], TotalPlaysPrefix)
    /\ HasPrefix(out[Len(out)], TotalSetsPrefix)
    /\ \A k \in 1..Len(setLinks) :
          ~HasPrefix(out[k], TotalPlaysPrefix)
              /\ ~HasPrefix(out[k], TotalSetsPrefix)

\* C12 as stated: a normal-mode run on a file that opens always ends,
\* whatever fails on the way, and EndOfRun holds when it has ended.
C12_Original ==
    /\ NormalStart ~> NormalDone
    /\ [](NormalDone => EndOfRun)

\* C12, amended: a normal-mode run on a file that opens ends unless it waits
\* for ever in a network call that does not return; EndOfRun holds when it
\* has ended, and at no point of a run, ended or waiting, was a page fetched
\* twice or out of order.
C12_RunCompletes ==
    /\ NormalStart ~> (NormalDone \/ Stalled)
    /\ [](NormalDone => EndOfRun)
    /\ [](args # "sort" /\ pc \in {"loop", "blocked", "done"} =>
            /\ Len(fetches) <= Len(LinkedEntries)
            /\ fetches = SubSeq(LinkedEntries, 1, Len(fetches)))

\* a finished run over an unlinked entry and a linked one whose page could
\* not be fetched
C12_Witness ==
    /\ NormalDone
    /\ file.lineNames = <<"LineRaw", "LineTestSet">>
    /\ lastEntry.world.fetchErr
    /\ Len(fetches) = 1
    /\ out[2] = LineTestSet
    /\ Len(out) = 5

RequestsOf(reqs) == {reqs[i] : i \in 1..Len(reqs)}

\* C13: a step whose credential is not configured sends nothing.  Without
\* an API key getYouTubePlays returns 0 and sends no request; without an
\* OAuth token no request carries one; without both client id and client
\* secret no token is asked for and none is used; without a client id no
\* request carries a client id; and with no SoundCloud credential at all the
\* fetch of the page is the only request of getSoundcloudPlays.
C13_NoCredentialNoRequest ==
    /\ ytOut.called /\ ~ytIn.cfg.youtubeKey =>
          ytOut.reqs = <<>> /\ ytOut.plays = 0
    /\ scOut.called =>
          LET c == scIn.cfg
              sent == RequestsOf(scOut.reqs)
          IN /\ ~c.oauthToken => \A r \in sent : r.auth # "env_token"
             /\ ~(c.clientID /\ c.clientSecret) =>
                   \A r \in sent : /\ r.endpoint # "oauth2_token"
                                    /\ r.auth # "client_credentials"
                                    /\ r.auth # "exchanged_token"
             /\ ~c.clientID => \A r \in sent : r.auth # "client_id"
             /\ ~c.oauthToken /\ ~c.clientID /\ ~c.clientSecret =>
                   scOut.reqs = <<Req("page", "none")>>

\* the resolver called with a client secret alone, on servers that would
\* answer every API request: the count is the one scraped from the page
C13_Witness ==
    /\ scOut.called
    /\ scIn.cfg = Config(FALSE, FALSE, TRUE, FALSE)
    /\ scIn.env.tokenResolve.first = OkHop(5)
    /\ scIn.env.exchange.status = StatusOK
    /\ scIn.env.exchange.token
    /\ scIn.env.legacy.first = OkHop(5)
    /\ scOut.reqs = <<Req("page", "none")>>
    /\ scOut.plays = 9

\* the summary's last line for a count of n sets, as the CLI prints it
SetsSummary(n) == TotalSetsPrefix \o NatDigits(n) \o <<Notes, "*", "*">>

\* C14 as stated: the set counter of the summary is the number of unique
\* entries that have a link; an unlinked entry does not count.
C14_Original ==
    NormalDone =>
        /\ totalSets = Len(LinkedEntries)
        /\ out[Len(out)] = SetsSummary(Len(LinkedEntries))

\* C14, amended: the set counter counts every unique entry, with or without
\* a link: in the loop it is the number of lines printed so far, and the
\* summary shows the number of entries the parser gave, which is the number
\* of entry lines printed.
C14_CountsEveryEntry ==
    /\ pc = "loop" => totalSets = Len(out)
    /\ NormalDone =>
          /\ totalSets = Len(setLinks)
          /\ LET n == Len(EntryLines)
             IN totalSets = n /\ out[Len(out)] = SetsSummary(n)

\* a finished run over one unlinked and one linked entry: two sets
C14_Witness ==
    /\ NormalDone
    /\ file.lineNames = <<"LineRaw", "LineTestSet">>
    /\ Len(LinkedEntries) = 1
    /\ totalSets = 2
    /\ out[Len(out)] = SetsSummary(2)

\* the count an entry line is annotated with: the digits between the
\* separator " _//_ " and a closing headphones marker; 0 for a line that does
\* not end so
AnnotatedCount(line) ==
    LET n == Len(line)
        starts == {p \in 1..n : \A q \in p..(n - 1) : line[q] \in DigitSet}
        p == CHOOSE q \in starts : \A r \in starts : q <= r
        seplen == Len(PlaysSeparator)
    IN IF n = 0 \/ line[n] # Headphones THEN 0
       ELSE IF p > n - 1 \/ p <= seplen THEN 0
       ELSE IF SubSeq(line, p - seplen, p - 1) # PlaysSeparator THEN 0
       ELSE Atoi(SubSeq(line, p, n - 1))

RECURSIVE SumAnnotated(_)
SumAnnotated(ls) ==
    IF ls = <<>> THEN 0
    ELSE SumAnnotated(SubSeq(ls, 1, Len(ls) - 1)) + AnnotatedCount(ls[Len(ls)])

\* C15: the running total is at every point of the loop the sum of the
\* counts annotated on the lines printed so far (a line without annotation
\* counting 0), and the summary of a finished run shows that sum.
C15_TotalIsSum ==
    /\ pc = "loop" => totalPlays = SumAnnotated(out)
    /\ NormalDone =>
          /\ totalPlays = SumAnnotated(EntryLines)
          /\ out[Len(out) - 1]
                = TotalPlaysPrefix \o formatPlays(SumAnnotated(EntryLines))
                      \o <<Headphones, "*", "*">>

HasMarker(s) == Headphones \in CharsOf(s)

\* what sort mode makes of one line of a file: its entry, if it keeps one
AsSortEntry(line) == CollectEntries(<<line>>, 1, <<>>, {})

\* C16 as stated: the line normal mode prints for an entry of positive total
\* whose name and link hold no count marker reads back in sort mode with that
\* total, and every line printed without annotation reads back with 0.
C16_Original ==
    pc \in {"loop", "done"} /\ args # "sort" /\ lastEntry.idx > 0 =>
        LET k == lastEntry.idx
            c == lastEntry.plays
            e == AsSortEntry(out[k])
        IN /\ c > 0 /\ ~HasMarker(setNames[k]) /\ ~HasMarker(setLinks[k]) =>
                 Len(e) = 1 /\ e[1].line = out[k] /\ e[1].plays = c
           /\ c <= 0 => Len(e) = 1 /\ e[1].line = out[k] /\ e[1].plays = 0

\* C16, amended: the line normal mode prints for an entry whose name and link
\* hold no count marker (the name of an unlinked entry is its line) is a list
\* item to sort mode, and the count sort mode extracts from it is the
\* entry's total when that is positive and 0 when the line was printed
\* without annotation.
C16_RoundTrip ==
    pc \in {"loop", "done"} /\ args # "sort" /\ lastEntry.idx > 0 =>
        LET k == lastEntry.idx
            c == lastEntry.plays
            e == AsSortEntry(out[k])
        IN ~HasMarker(setNames[k]) /\ ~HasMarker(setLinks[k]) =>
              /\ Len(e) = 1
              /\ e[1].line = out[k]
              /\ e[1].plays = IF c > 0 THEN c ELSE 0

\* an entry of 1450000 plays, printed and read back
C16_Witness ==
    /\ NormalDone
    /\ file.lineNames = <<"LineTestSet">>
    /\ lastEntry.plays = 1450000
    /\ AsSortEntry(out[1])[1].plays = 1450000
    /\ AsSortEntry(out[1])[1].link = setLinks[1]

-----------------------------------------------------------------------------
(* Sort mode against the list parser *)

\* the lines sort mode should print if it kept what the parser keeps: the
\* trimmed list items that either hold no link sort mode can extract, or are
\* kept by extractSetLinks (the line is among the parser's raw lines and no
\* earlier line reads the same)
KeptLikeParser ==
    LET n == Len(file.lineNames)
        trims == [i \in 1..n |-> TrimSpace(LineText(file.lineNames[i]))]
        items == {i \in 1..n : HasPrefix(trims[i], ListMarker)}
        parsed == extractSetLinks(FileLines(file)).rawLines
        kept == {parsed[k] : k \in 1..Len(parsed)}
        ParserKeeps(i) ==
            /\ trims[i] \in kept
            /\ \A j \in items : j < i => trims[j] # trims[i]
        Keep(i) ==
            /\ i \in items
            /\ ExtractLink(trims[i]) = <<>> \/ ParserKeeps(i)
        sel == SelectSeq([i \in 1..n |-> i], Keep)
    IN [k \in 1..Len(sel) |-> trims[sel[k]]]

\* C17: on every file sort mode prints the list items the parser keeps, and
\* besides them only the repeats of lines without a link.
C17_SameEntries ==
    SortDone =>
        LET q == KeptLikeParser
        IN /\ Len(out) = Len(q)
           /\ \A x \in {q[i] : i \in 1..Len(q)} :
                 Occurrences(out, x) = Occurrences(q, x)

=============================================================================
